---- MODULE Spec2Model ----
(***************************************************************************)
(* Model of the control loop of minisweagent.agents.default.DefaultAgent  *)
(* and of the pure functions it is built from.                             *)
(*                                                                         *)
(* Text is a sequence of tokens.  A token stands for one character or for  *)
(* one fixed run of characters that the code only ever handles as a whole: *)
(*   "SP"  a space            "NL"   a line feed                           *)
(*   "F"   three backticks    "B"    the word bash                         *)
(*   "S1"  MINI_SWE_AGENT_FINAL_OUTPUT                                     *)
(*   "S2"  COMPLETE_TASK_AND_SUBMIT_FINAL_OUTPUT                           *)
(*   "diff" "--git" "+++" "---"   the diff markers                         *)
(*   "a" "b" "/" "*"              single characters                        *)
(*   ".py" ".md" "src" "dev" "null" "x" "y" ...  runs of other characters  *)
(***************************************************************************)
EXTENDS Integers, Sequences, FiniteSets, TLC

\* ------------------------------------------------------------------------
\* Python str helpers
\* ------------------------------------------------------------------------

\* str.isspace for one token
IsSpace(c) == c \in {"SP", "NL"}

Min(a, b) == IF a <= b THEN a ELSE b

Max(a, b) == IF a >= b THEN a ELSE b

\* s[i:] with a 1-based first index
Drop(s, i) == SubSeq(s, i, Len(s))

RECURSIVE LStripChars(_, _)
\* str.lstrip(chars): remove every leading character that is in the set chars
LStripChars(s, chars) ==
    IF s # <<>> /\ Head(s) \in chars THEN LStripChars(Tail(s), chars) ELSE s

RECURSIVE RStripChars(_, _)
\* str.rstrip(chars)
RStripChars(s, chars) ==
    IF s # <<>> /\ s[Len(s)] \in chars
    THEN RStripChars(SubSeq(s, 1, Len(s) - 1), chars)
    ELSE s

\* str.lstrip()
LStrip(s) == LStripChars(s, {"SP", "NL"})

\* str.strip()
Strip(s) == RStripChars(LStrip(s), {"SP", "NL"})

\* str.startswith
StartsWith(s, p) == Len(s) >= Len(p) /\ SubSeq(s, 1, Len(p)) = p

\* str.endswith
EndsWith(s, p) == Len(s) >= Len(p) /\ SubSeq(s, Len(s) - Len(p) + 1, Len(s)) = p

RECURSIVE SplitLinesFrom(_, _, _)
\* the lines of s from position i on
SplitLinesFrom(s, i, keepends) ==
    IF i > Len(s) THEN <<>>
    ELSE LET nls == {k \in i..Len(s) : s[k] = "NL"}
         IN  IF nls = {} THEN <<SubSeq(s, i, Len(s))>>
             ELSE LET k == CHOOSE n \in nls : \A m \in nls : n <= m
                  IN  <<SubSeq(s, i, IF keepends THEN k ELSE k - 1)>>
                        \o SplitLinesFrom(s, k + 1, keepends)

\* str.splitlines(keepends)
SplitLines(s, keepends) == SplitLinesFrom(s, 1, keepends)

RECURSIVE Split(_)
\* str.split(): the maximal runs of non-space characters
Split(s) ==
    LET t == LStrip(s)
    IN  IF t = <<>> THEN <<>>
        ELSE LET sp == {k \in 1..Len(t) : IsSpace(t[k])}
                 e  == IF sp = {} THEN Len(t) + 1
                       ELSE CHOOSE n \in sp : \A m \in sp : n <= m
             IN  <<SubSeq(t, 1, e - 1)>> \o Split(Drop(t, e))

RECURSIVE Join(_)
\* "".join(lines)
Join(lines) == IF lines = <<>> THEN <<>> ELSE Head(lines) \o Join(Tail(lines))

RECURSIVE JoinWith(_, _)
\* sep.join(items)
JoinWith(sep, items) ==
    IF items = <<>> THEN <<>>
    ELSE IF Len(items) = 1 THEN Head(items)
    ELSE Head(items) \o sep \o JoinWith(sep, Tail(items))

RECURSIVE FnMatch(_, _)
\* fnmatch.fnmatch(name, pat): "*" matches any run of characters (also "/"),
\* every other token of the pattern matches itself
FnMatch(name, pat) ==
    IF pat = <<>> THEN name = <<>>
    ELSE IF Head(pat) = "*"
         THEN \E k \in 0..Len(name) : FnMatch(Drop(name, k + 1), Tail(pat))
         ELSE name # <<>> /\ Head(name) = Head(pat) /\ FnMatch(Tail(name), Tail(pat))

\* ------------------------------------------------------------------------
\* Configuration (AgentConfig) and exception kinds
\* ------------------------------------------------------------------------

\* the recognised submission sentinels, each the whole of a stripped line
Sentinels == {<<"S1">>, <<"S2">>}

\* AgentConfig.source_path_patterns default: ["src/**/*.py", "*.py"]
DefaultPatterns == << <<"src", "/", "*", "*", "/", "*", ".py">>, <<"*", ".py">> >>

NonTerminating == {"FormatError", "ExecutionTimeoutError"}

Terminating == {"Submitted", "LimitsExceeded"}

\* no exception pending
NoExc == [kind |-> "none", msg |-> <<>>]

Exc(k, m) == [kind |-> k, msg |-> m]

\* render_template: the rendered text names the template and embeds the
\* values of the variables the template is given
render_template(template, values) == <<template>> \o values

\* ------------------------------------------------------------------------
\* render_template: the variables a template is rendered with
\* A set of variables is a function on Names; a name it does not define is
\* Undefined.  A template is the sequence of the names it references.
\* ------------------------------------------------------------------------

Names == {"task", "step_limit", "cwd"}

Undefined == <<"Undefined">>

\* {}
NoVars == [n \in Names |-> Undefined]

\* n in vs
Defines(vs, n) == vs[n] # Undefined

\* a | b and a |= b: the right operand wins
Merge(a, b) == [n \in Names |-> IF Defines(b, n) THEN b[n] ELSE a[n]]

\* str(n) of a configured limit
Str(n) == <<"0", "1", "2", "3", "4", "5", "6", "7", "8", "9">>[n + 1]

\* self.config.model_dump(): the fields of AgentConfig, none named task or cwd
config_vars(cfg) ==
    [n \in Names |-> IF n = "step_limit" THEN <<Str(cfg.step_limit)>> ELSE Undefined]

\* render_template line 61
template_vars(cfg, env_vars, model_vars) ==
    Merge(Merge(config_vars(cfg), env_vars), model_vars)

\* the names that more than one of the three ** groups of the call passes
DuplicateKeywords(kwargs, tvars, extra) ==
    {n \in Names :
        \/ Defines(kwargs, n) /\ Defines(tvars, n)
        \/ Defines(kwargs, n) /\ Defines(extra, n)
        \/ Defines(tvars, n) /\ Defines(extra, n)}

\* what a render_template call gives: text, or the error it raises
Rendered(text) == [ok |-> TRUE, error |-> "none", text |-> text]

RenderError(error) == [ok |-> FALSE, error |-> error, text |-> <<>>]

\* render_template lines 61-64: a keyword passed twice is a TypeError of the
\* call; StrictUndefined raises UndefinedError for a name that is not passed
render_call(template, kwargs, cfg, env_vars, model_vars, extra) ==
    LET tvars == template_vars(cfg, env_vars, model_vars)
        passed == Merge(Merge(kwargs, tvars), extra)
    IN  IF DuplicateKeywords(kwargs, tvars, extra) # {}
        THEN RenderError("TypeError")
        ELSE IF \E i \in 1..Len(template) : ~Defines(passed, template[i])
        THEN RenderError("UndefinedError")
        ELSE Rendered(JoinWith(<<"SP">>, [i \in 1..Len(template) |-> passed[template[i]]]))

\* run line 71: {"task": task, **kwargs}
run_extras(task, kwargs) == [n \in Names |-> IF n = "task" THEN task ELSE kwargs[n]]

\* ------------------------------------------------------------------------
\* parse_action: re.findall(action_regex, content, re.DOTALL)
\* action_regex = ```bash\s*\n(.*?)\n```
\* ------------------------------------------------------------------------

\* the numbers m of whitespace characters \s* may take at an opener at i so
\* that the rest of the pattern still matches
FenceChoices(s, i) ==
    {m \in 0..Len(s) :
        /\ \A k \in (i + 2)..(i + 1 + m) : k <= Len(s) /\ IsSpace(s[k])
        /\ i + 2 + m <= Len(s)
        /\ s[i + 2 + m] = "NL"
        /\ \E k \in (i + 3 + m)..(Len(s) - 1) : s[k] = "NL" /\ s[k + 1] = "F"}

\* one attempt of the regex at position i: \s* is greedy (the largest m that
\* lets the rest match), the group is lazy (the nearest closing fence)
MatchAt(s, i) ==
    IF i + 1 <= Len(s) /\ s[i] = "F" /\ s[i + 1] = "B" /\ FenceChoices(s, i) # {}
    THEN LET ms == FenceChoices(s, i)
             m  == CHOOSE x \in ms : \A y \in ms : y <= x
             p  == i + 2 + m
             ks == {k \in (p + 1)..(Len(s) - 1) : s[k] = "NL" /\ s[k + 1] = "F"}
             k  == CHOOSE x \in ks : \A y \in ks : x <= y
         IN  [ok |-> TRUE, group |-> SubSeq(s, p + 1, k - 1), end |-> k + 2]
    ELSE [ok |-> FALSE, group |-> <<>>, end |-> i + 1]

RECURSIVE FindAllFrom(_, _)
\* the groups of the non-overlapping matches found scanning from position i
FindAllFrom(s, i) ==
    IF i > Len(s) THEN <<>>
    ELSE LET r == MatchAt(s, i)
         IN  IF r.ok THEN <<r.group>> \o FindAllFrom(s, r.end)
             ELSE FindAllFrom(s, i + 1)

\* re.findall(action_regex, content, re.DOTALL)
FindAll(s) == FindAllFrom(s, 1)

\* an extractor that takes the first match when there are several
parse_action_first(content) ==
    LET actions == FindAll(content)
    IN  IF Len(actions) >= 1
        THEN [ok |-> TRUE, action |-> Strip(actions[1]), exc |-> NoExc]
        ELSE [ok |-> FALSE, action |-> <<>>,
              exc |-> Exc("FormatError",
                          render_template("format_error_template", <<>>))]

\* parse_action: the action, or the FormatError carrying the matches found
parse_action(content) ==
    LET actions == FindAll(content)
    IN  IF Len(actions) = 1
        THEN [ok |-> TRUE, action |-> Strip(actions[1]), exc |-> NoExc]
        ELSE [ok |-> FALSE, action |-> <<>>,
              exc |-> Exc("FormatError",
                          render_template("format_error_template",
                                          JoinWith(<<",">>, actions)))]

\* ------------------------------------------------------------------------
\* has_finished and _has_source_file_changes
\* ------------------------------------------------------------------------

\* filepath = parts[k].lstrip("a/").lstrip("b/")
StripPrefix(fp) == LStripChars(LStripChars(fp, {"a", "/"}), {"b", "/"})

\* the paths one line of the payload adds to changed_files
ChangedFilesOfLine(line) ==
    LET parts == Split(line)
    IN  IF StartsWith(line, <<"diff", "SP", "--git">>)
        THEN IF Len(parts) >= 3 THEN <<StripPrefix(parts[3])>> ELSE <<>>
        ELSE IF StartsWith(line, <<"+++">>) \/ StartsWith(line, <<"---">>)
        THEN IF Len(parts) >= 2 /\ StripPrefix(parts[2]) # <<"/", "dev", "/", "null">>
             THEN <<StripPrefix(parts[2])>>
             ELSE <<>>
        ELSE <<>>

RECURSIVE ChangedFilesOf(_)
\* changed_files after the first loop over the lines
ChangedFilesOf(lines) ==
    IF lines = <<>> THEN <<>>
    ELSE ChangedFilesOfLine(Head(lines)) \o ChangedFilesOf(Tail(lines))

\* the submission has_finished validates: the lines after the first one
submission_of(output) == Join(Tail(SplitLines(LStrip(output), TRUE)))

\* changed_files as _has_source_file_changes leaves it for a payload
changed_files_of(git_diff_output) == ChangedFilesOf(SplitLines(git_diff_output, FALSE))

\* _has_source_file_changes(git_diff_output)
has_source_file_changes(git_diff_output, patterns) ==
    LET files == changed_files_of(git_diff_output)
    IN  \E f \in 1..Len(files) : \E p \in 1..Len(patterns) :
            FnMatch(files[f], patterns[p]) \/ EndsWith(files[f], <<".py">>)

\* the text of the FormatError of a rejected submission
RejectionMessage(patterns) ==
    <<"Submission rejected ... (matching patterns: ">>
        \o JoinWith(<<",", "SP">>, patterns)
        \o <<") for the submission to be valid.">>

\* has_finished lines 128-131: _has_source_file_changes is called
validates(output, validate) ==
    LET lines == SplitLines(LStrip(output), TRUE)
    IN  lines # <<>> /\ Strip(lines[1]) \in Sentinels /\ validate

\* a detector that takes a sentinel on any line as the submission marker
has_finished_any_line(output, validate, patterns) ==
    LET lines == SplitLines(LStrip(output), TRUE)
        hits  == {i \in 1..Len(lines) : Strip(lines[i]) \in Sentinels}
    IN  IF hits # {}
        THEN LET first == CHOOSE i \in hits : \A j \in hits : i <= j
             IN  Exc("Submitted", Join(SubSeq(lines, first + 1, Len(lines))))
        ELSE NoExc

\* has_finished(output): the exception it raises, NoExc when it returns
has_finished(output, validate, patterns) ==
    LET lines == SplitLines(LStrip(output), TRUE)
    IN  IF lines # <<>> /\ Strip(lines[1]) \in Sentinels
        THEN LET submission == submission_of(output)
             IN  IF validate /\ ~has_source_file_changes(submission, patterns)
                 THEN Exc("FormatError", RejectionMessage(patterns))
                 ELSE Exc("Submitted", submission)
        ELSE NoExc

\* ------------------------------------------------------------------------
\* query: the limit check and the history view
\* ------------------------------------------------------------------------

\* a limit check that fires only once a limit is exceeded, not when it is met
limits_exceeded_late(cfg, calls, spent) ==
    \/ (0 < cfg.step_limit /\ cfg.step_limit < calls)
    \/ (0 < cfg.cost_limit /\ cfg.cost_limit < spent)

\* a limit check that forgets the step limit
limits_exceeded_cost_only(cfg, calls, spent) ==
    0 < cfg.cost_limit /\ cfg.cost_limit <= spent

\* query line 90: 0 < step_limit <= n_calls or 0 < cost_limit <= cost
limits_exceeded(cfg, calls, spent) ==
    \/ (0 < cfg.step_limit /\ cfg.step_limit <= calls)
    \/ (0 < cfg.cost_limit /\ cfg.cost_limit <= spent)

\* msgs[-n:] for n > 0
LastN(msgs, n) == SubSeq(msgs, Max(1, Len(msgs) - n + 1), Len(msgs))

\* a view that keeps only the first entry as its head
history_view_short_head(msgs, max_history_messages) ==
    IF max_history_messages > 0 /\ Len(msgs) > 2
    THEN SubSeq(msgs, 1, 1) \o LastN(Drop(msgs, 3), max_history_messages)
    ELSE msgs

\* query lines 92-96: the messages handed to model.query
history_view(msgs, max_history_messages) ==
    IF max_history_messages > 0 /\ Len(msgs) > 2
    THEN SubSeq(msgs, 1, 2) \o LastN(Drop(msgs, 3), max_history_messages)
    ELSE msgs

\* Model.n_calls after one more model.query
calls_after_query(calls) == calls + 1

\* Model.cost after a model.query that cost c
cost_after_query(spent, c) == spent + c

\* add_message: the log with one more entry (the timestamp is left out)
add_message(msgs, role, content) == Append(msgs, [role |-> role, content |-> content])

\* bytes.decode("utf-8", errors="replace"): an undecodable byte becomes U+FFFD
Decode(bytes) == [i \in 1..Len(bytes) |-> IF bytes[i] = "0xFF" THEN "U+FFFD" ELSE bytes[i]]

\* a recovery of the partial output that does not default to ""
timeout_output_raw(e) == Decode(e.output)

\* execute_action line 119: the partial output attached to a timeout, "" when
\* the failure has no output attribute or an empty one
timeout_output(e) == IF e.has /\ e.output # <<>> THEN Decode(e.output) ELSE <<>>


\* ------------------------------------------------------------------------
\* Inputs of the control loop
\* ------------------------------------------------------------------------

\* the most model calls a behaviour makes
MaxCalls == 3

Tasks == {<<"task">>}

StepLimits == {0, 1, 2, 3}

CostLimits == {0, 3}

HistorySizes == {0, 1, 2}

\* what one model call may cost
CallCosts == {1, 2}

Configs ==
    [step_limit : StepLimits, cost_limit : CostLimits,
     max_history_messages : HistorySizes,
     validate_source_changes : BOOLEAN,
     source_path_patterns : {DefaultPatterns}]

\* one action block, padded with blanks inside the fence
OneAction == <<"x", "NL", "F", "B", "SP", "NL", "SP", "y", "SP", "NL", "F", "NL">>

\* what the model may answer
Contents ==
    { <<"x">>,
      OneAction,
      <<"F", "B", "NL", "x", "NL", "F", "NL", "F", "B", "NL", "y", "NL", "F">> }

\* MINI_SWE_AGENT_FINAL_OUTPUT\nhello world\n
HelloSubmission == <<"S1", "NL", "hello", "SP", "world", "NL">>

\* a submission of a diff of src/pkg/mod.py
ModSubmission ==
    <<"SP", "S2", "SP", "NL", "diff", "SP", "--git", "SP",
      "a", "/", "src", "/", "pkg", "/", "mod", ".py", "SP",
      "b", "/", "src", "/", "pkg", "/", "mod", ".py", "NL">>

\* what the sandbox may print
Outputs ==
    { <<>>,
      <<"x", "NL">>,
      <<"x", "NL", "S1", "NL", "y", "NL">>,
      HelloSubmission,
      ModSubmission }

\* the failures a sandbox timeout may carry: no output attribute, or bytes
TimeoutErrors ==
    { [kind |-> "timeout", has |-> FALSE, output |-> <<"None">>],
      [kind |-> "timeout", has |-> TRUE, output |-> <<>>],
      [kind |-> "timeout", has |-> TRUE, output |-> <<"x", "0xFF">>],
      [kind |-> "timeout", has |-> TRUE, output |-> <<"S1", "NL", "x">>] }

\* env.execute returned this output
Returned(output) == [kind |-> "returned", has |-> TRUE, output |-> output]

\* env.execute was not called yet
NotCalled == [kind |-> "none", has |-> FALSE, output |-> <<>>]

\* ------------------------------------------------------------------------
\* The control loop: DefaultAgent.run
\* ------------------------------------------------------------------------

VARIABLES
    config,     \* self.config
    messages,   \* self.messages
    n_calls,    \* self.model.n_calls
    cost,       \* self.model.cost
    pc,         \* where run is: idle, query, observe, execute, raised, done
    response,   \* the content of the response query returned
    action,     \* the action parse_action returned
    exc,        \* the exception travelling to the handlers of run
    result,     \* what run returned
    sent,       \* the messages the last model.query was given
    n_exec,     \* the number of env.execute calls made
    env_result, \* what the last env.execute returned or raised
    changed_files,  \* changed_files of the last _has_source_file_changes
    trace,      \* the model.query and env.execute calls of the current run, in order
    run_no,     \* the number of run calls made
    prev_kind,  \* the kind of what the run before the current one returned
    extra_template_vars,    \* self.extra_template_vars
    rendered,   \* the last render_template call with explicit variables: its inputs and outcome
    collaborator_vars,  \* what env.get_template_vars() and model.get_template_vars() return
    chunking    \* a chunk_text call: its arguments, its locals and its position

vars == <<config, messages, n_calls, cost, pc, response, action, exc, result, sent,
          n_exec, env_result, changed_files, trace, run_no, prev_kind,
          extra_template_vars, rendered, collaborator_vars, chunking>>

\* chunk_text was called with these arguments and is at the head of its loop
ChunkCall(text, chunk_size, overlap) ==
    [text |-> text, chunk_size |-> chunk_size, overlap |-> overlap,
     start |-> 0, chunks |-> <<>>, pc |-> "loop"]

\* chunk_text was not called
NotChunking ==
    [text |-> <<>>, chunk_size |-> 1, overlap |-> 0,
     start |-> 0, chunks |-> <<>>, pc |-> "none"]

\* a render_template call: what it was given and what it gave
RenderCall(template, kwargs, cfg, env_vars, model_vars, extra) ==
    [called |-> TRUE, template |-> template, kwargs |-> kwargs,
     config |-> config_vars(cfg), env |-> env_vars, model |-> model_vars,
     extra |-> extra,
     out |-> render_call(template, kwargs, cfg, env_vars, model_vars, extra)]

\* render_template was not called with explicit variables yet
NotRendered ==
    [called |-> FALSE, template |-> <<>>, kwargs |-> NoVars,
     config |-> NoVars, env |-> NoVars, model |-> NoVars, extra |-> NoVars,
     out |-> Rendered(<<>>)]

\* model.query was called and returned this content
ModelCall(content) == [call |-> "model", text |-> content]

\* env.execute was called with this command
EnvCall(command) == [call |-> "env", text |-> command]

Init ==
    /\ config \in Configs
    /\ messages = <<>>
    /\ n_calls = 0
    /\ cost = 0
    /\ pc = "idle"
    /\ response = <<>>
    /\ action = <<>>
    /\ exc = NoExc
    /\ result = NoExc
    /\ sent = <<>>
    /\ n_exec = 0
    /\ env_result = NotCalled
    /\ changed_files = <<>>
    /\ trace = <<>>
    /\ run_no = 0
    /\ prev_kind = "none"
    /\ extra_template_vars = NoVars
    /\ rendered = NotRendered
    /\ collaborator_vars = [env |-> NoVars, model |-> NoVars]
    /\ chunking = NotChunking

\* run lines 71-74: reset the log, append the system and instance prompts
Run(task) ==
    /\ pc = "idle"
    /\ messages' = add_message(
                     add_message(<<>>, "system", render_template("system_template", <<>>)),
                     "user", render_template("instance_template", task))
    /\ pc' = "query"
    /\ trace' = <<>>
    /\ run_no' = run_no + 1
    /\ extra_template_vars' = Merge(extra_template_vars, run_extras(task, NoVars))
    /\ UNCHANGED <<config, n_calls, cost, response, action, exc, result,
                   sent, n_exec, env_result, changed_files, prev_kind, rendered,
                   collaborator_vars, chunking>>

\* query lines 90-91: a configured limit is met
QueryLimits ==
    /\ pc = "query"
    /\ limits_exceeded(config, n_calls, cost)
    /\ exc' = Exc("LimitsExceeded", <<>>)
    /\ pc' = "raised"
    /\ UNCHANGED <<config, messages, n_calls, cost, response, action, result,
                   sent, n_exec, env_result, changed_files, trace, run_no, prev_kind,
                   extra_template_vars, rendered,
                   collaborator_vars, chunking>>

\* a query that truncates the log itself to the view it sends
QueryModelTruncating(content, c) ==
    /\ pc = "query"
    /\ ~limits_exceeded(config, n_calls, cost)
    /\ n_calls < MaxCalls
    /\ sent' = history_view(messages, config.max_history_messages)
    /\ n_calls' = calls_after_query(n_calls)
    /\ cost' = cost_after_query(cost, c)
    /\ messages' = add_message(history_view(messages, config.max_history_messages),
                               "assistant", content)
    /\ response' = content
    /\ pc' = "observe"
    /\ trace' = Append(trace, ModelCall(content))
    /\ UNCHANGED <<config, action, exc, result, n_exec, env_result,
                   changed_files, run_no, prev_kind,
                   extra_template_vars, rendered,
                   collaborator_vars, chunking>>

\* a query that logs only the responses an action can be extracted from
QueryModelDroppingMalformed(content, c) ==
    /\ pc = "query"
    /\ ~limits_exceeded(config, n_calls, cost)
    /\ n_calls < MaxCalls
    /\ sent' = history_view(messages, config.max_history_messages)
    /\ n_calls' = calls_after_query(n_calls)
    /\ cost' = cost_after_query(cost, c)
    /\ messages' = IF parse_action(content).ok
                   THEN add_message(messages, "assistant", content)
                   ELSE messages
    /\ response' = content
    /\ pc' = "observe"
    /\ trace' = Append(trace, ModelCall(content))
    /\ UNCHANGED <<config, action, exc, result, n_exec, env_result,
                   changed_files, run_no, prev_kind, extra_template_vars, rendered,
                   collaborator_vars, chunking>>

\* query lines 92-99: call the model on the view, append its response
QueryModel(content, c) ==
    /\ pc = "query"
    /\ ~limits_exceeded(config, n_calls, cost)
    /\ n_calls < MaxCalls
    /\ sent' = history_view(messages, config.max_history_messages)
    /\ n_calls' = calls_after_query(n_calls)
    /\ cost' = cost_after_query(cost, c)
    /\ messages' = add_message(messages, "assistant", content)
    /\ response' = content
    /\ pc' = "observe"
    /\ trace' = Append(trace, ModelCall(content))
    /\ UNCHANGED <<config, action, exc, result, n_exec, env_result,
                   changed_files, run_no, prev_kind,
                   extra_template_vars, rendered,
                   collaborator_vars, chunking>>

\* get_observation line 103, parse_action
ParseAction ==
    /\ pc = "observe"
    /\ LET r == parse_action(response)
       IN  IF r.ok
           THEN /\ action' = r.action
                /\ pc' = "execute"
                /\ exc' = exc
           ELSE /\ exc' = r.exc
                /\ pc' = "raised"
                /\ action' = action
    /\ UNCHANGED <<config, messages, n_calls, cost, response, result, sent,
                   n_exec, env_result, changed_files, trace, run_no, prev_kind,
                   extra_template_vars, rendered,
                   collaborator_vars, chunking>>

\* execute_action lines 118-122: env.execute times out
ExecuteTimeout(e) ==
    /\ pc = "execute"
    /\ n_exec' = n_exec + 1
    /\ exc' = Exc("ExecutionTimeoutError",
                  render_template("timeout_template", action \o <<"|">> \o timeout_output(e)))
    /\ pc' = "raised"
    /\ env_result' = e
    /\ trace' = Append(trace, EnvCall(action))
    /\ UNCHANGED <<config, messages, n_calls, cost, response, action, result, sent,
                   changed_files, run_no, prev_kind,
                   extra_template_vars, rendered,
                   collaborator_vars, chunking>>

\* execute_action lines 117, 123-124 and get_observation lines 104-106
ExecuteOutput(output) ==
    /\ pc = "execute"
    /\ n_exec' = n_exec + 1
    /\ env_result' = Returned(output)
    /\ changed_files' =
          IF validates(output, config.validate_source_changes)
          THEN changed_files_of(submission_of(output))
          ELSE changed_files
    /\ LET fin == has_finished(output, config.validate_source_changes,
                               config.source_path_patterns)
       IN  IF fin.kind # "none"
           THEN /\ exc' = fin
                /\ pc' = "raised"
                /\ messages' = messages
           ELSE /\ messages' = add_message(messages, "user",
                                 render_template("action_observation_template", output))
                /\ pc' = "query"
                /\ exc' = exc
    /\ trace' = Append(trace, EnvCall(action))
    /\ UNCHANGED <<config, n_calls, cost, response, action, result, sent,
                   run_no, prev_kind,
                   extra_template_vars, rendered,
                   collaborator_vars, chunking>>

\* a handler that swallows the error without feeding it back
HandleNonTerminatingSilent ==
    /\ pc = "raised"
    /\ exc.kind \in NonTerminating
    /\ exc' = NoExc
    /\ pc' = "query"
    /\ UNCHANGED <<config, messages, n_calls, cost, response, action, result, sent,
                   n_exec, env_result, changed_files, trace, run_no, prev_kind,
                   extra_template_vars, rendered,
                   collaborator_vars, chunking>>

\* a handler that runs the command again after a timeout
HandleNonTerminatingRetry ==
    /\ pc = "raised"
    /\ exc.kind \in NonTerminating
    /\ messages' = add_message(messages, "user", exc.msg)
    /\ exc' = NoExc
    /\ pc' = IF exc.kind = "ExecutionTimeoutError" THEN "execute" ELSE "query"
    /\ UNCHANGED <<config, n_calls, cost, response, action, result, sent,
                   n_exec, env_result, changed_files, trace, run_no, prev_kind,
                   extra_template_vars, rendered, collaborator_vars, chunking>>

\* run lines 78-79
HandleNonTerminating ==
    /\ pc = "raised"
    /\ exc.kind \in NonTerminating
    /\ messages' = add_message(messages, "user", exc.msg)
    /\ exc' = NoExc
    /\ pc' = "query"
    /\ UNCHANGED <<config, n_calls, cost, response, action, result, sent,
                   n_exec, env_result, changed_files, trace, run_no, prev_kind,
                   extra_template_vars, rendered,
                   collaborator_vars, chunking>>

\* a handler that returns without recording the message
HandleTerminatingSilent ==
    /\ pc = "raised"
    /\ exc.kind \in Terminating
    /\ result' = exc
    /\ exc' = NoExc
    /\ pc' = "done"
    /\ UNCHANGED <<config, messages, n_calls, cost, response, action, sent,
                   n_exec, env_result, changed_files, trace, run_no, prev_kind,
                   extra_template_vars, rendered,
                   collaborator_vars, chunking>>

\* run lines 80-82
HandleTerminating ==
    /\ pc = "raised"
    /\ exc.kind \in Terminating
    /\ messages' = add_message(messages, "user", exc.msg)
    /\ result' = exc
    /\ exc' = NoExc
    /\ pc' = "done"
    /\ UNCHANGED <<config, n_calls, cost, response, action, sent, n_exec,
                   env_result, changed_files, trace, run_no, prev_kind,
                   extra_template_vars, rendered,
                   collaborator_vars, chunking>>

Next ==
    \/ \E task \in Tasks : Run(task)
    \/ QueryLimits
    \/ \E content \in Contents, c \in CallCosts : QueryModel(content, c)
    \/ ParseAction
    \/ \E e \in TimeoutErrors : ExecuteTimeout(e)
    \/ \E output \in Outputs : ExecuteOutput(output)
    \/ HandleNonTerminating
    \/ HandleTerminating

Spec == Init /\ [][Next]_vars

\* run is inside its loop and its next step is one the model takes
Running ==
    /\ pc \in {"query", "observe", "execute", "raised"}
    /\ ~(pc = "query" /\ ~limits_exceeded(config, n_calls, cost) /\ n_calls >= MaxCalls)

\* a step of the loop of run: every such step moves its position
Advance == Running /\ pc' \in {"query", "observe", "execute", "raised", "done"} \ {pc}

\* once called, run keeps taking the steps of its loop: the thread is not
\* suspended, and the model and the sandbox return or time out
SpecLive == Spec /\ WF_pc(Advance)

\* ------------------------------------------------------------------------
\* Collaborators that fail with errors outside the taxonomy
\* ------------------------------------------------------------------------

\* what model.query may raise; a TimeoutError of the model is not a sandbox timeout
ModelErrors == {"RuntimeError", "TimeoutError"}

\* what env.execute may raise besides TimeoutError and subprocess.TimeoutExpired
EnvErrors == {"RuntimeError", "OSError"}

\* the text recorded for a call that raised err
Raised(err) == <<"raise", err>>

\* env.execute raised err
Failed(err) == [kind |-> "error", has |-> FALSE, output |-> <<err>>]

\* query lines 92-97: model.query raises; the model may have counted the call
ModelFails(err) ==
    /\ pc = "query"
    /\ ~limits_exceeded(config, n_calls, cost)
    /\ sent' = history_view(messages, config.max_history_messages)
    /\ n_calls' \in {n_calls, calls_after_query(n_calls)}
    /\ exc' = Exc(err, <<>>)
    /\ pc' = "raised"
    /\ trace' = Append(trace, ModelCall(Raised(err)))
    /\ UNCHANGED <<config, messages, cost, response, action, result, n_exec,
                   env_result, changed_files, run_no, prev_kind,
                   extra_template_vars, rendered,
                   collaborator_vars, chunking>>

\* execute_action lines 116-118: env.execute raises an error the except
\* clause does not name
EnvFails(err) ==
    /\ pc = "execute"
    /\ n_exec' = n_exec + 1
    /\ env_result' = Failed(err)
    /\ exc' = Exc(err, <<>>)
    /\ pc' = "raised"
    /\ trace' = Append(trace, EnvCall(action))
    /\ UNCHANGED <<config, messages, n_calls, cost, response, action, result, sent,
                   changed_files, run_no, prev_kind,
                   extra_template_vars, rendered,
                   collaborator_vars, chunking>>

\* a loop that feeds every error back to the model
PropagateCaught ==
    /\ pc = "raised"
    /\ exc.kind \notin NonTerminating \cup Terminating
    /\ messages' = add_message(messages, "user", exc.msg)
    /\ exc' = NoExc
    /\ pc' = "query"
    /\ UNCHANGED <<config, n_calls, cost, response, action, result, sent,
                   n_exec, env_result, changed_files, trace, run_no, prev_kind,
                   extra_template_vars, rendered,
                   collaborator_vars, chunking>>

\* run lines 76-82: neither except clause matches, the error leaves run
Propagate ==
    /\ pc = "raised"
    /\ exc.kind \notin NonTerminating \cup Terminating
    /\ pc' = "crashed"
    /\ UNCHANGED <<config, messages, n_calls, cost, response, action, exc, result, sent,
                   n_exec, env_result, changed_files, trace, run_no, prev_kind,
                   extra_template_vars, rendered,
                   collaborator_vars, chunking>>

NextFatal ==
    \/ Next
    \/ \E err \in ModelErrors : ModelFails(err)
    \/ \E err \in EnvErrors : EnvFails(err)
    \/ Propagate

SpecFatal == Init /\ [][NextFatal]_vars

\* ------------------------------------------------------------------------
\* Runs that follow one another on the same agent and model
\* ------------------------------------------------------------------------

\* the number of run calls made on one agent
MaxRuns == 2

\* the tasks of the later runs
LaterTasks == {<<"task">>, <<"other">>}

\* a run that appends its prompts to the log of the run before
RunAgainKeepingLog(task) ==
    /\ pc = "done"
    /\ run_no < MaxRuns
    /\ extra_template_vars' = Merge(extra_template_vars, run_extras(task, NoVars))
    /\ messages' = add_message(
                     add_message(messages, "system", render_template("system_template", <<>>)),
                     "user", render_template("instance_template", task))
    /\ pc' = "query"
    /\ trace' = <<>>
    /\ run_no' = run_no + 1
    /\ prev_kind' = result.kind
    /\ response' = <<>>
    /\ action' = <<>>
    /\ result' = NoExc
    /\ sent' = <<>>
    /\ env_result' = NotCalled
    /\ changed_files' = <<>>
    /\ UNCHANGED <<config, n_calls, cost, exc, n_exec, rendered, collaborator_vars, chunking>>

\* a run that starts the model's counters afresh
RunAgainResetting(task) ==
    /\ pc = "done"
    /\ run_no < MaxRuns
    /\ extra_template_vars' = Merge(extra_template_vars, run_extras(task, NoVars))
    /\ messages' = add_message(
                     add_message(<<>>, "system", render_template("system_template", <<>>)),
                     "user", render_template("instance_template", task))
    /\ pc' = "query"
    /\ trace' = <<>>
    /\ run_no' = run_no + 1
    /\ prev_kind' = result.kind
    /\ n_calls' = 0
    /\ cost' = 0
    /\ response' = <<>>
    /\ action' = <<>>
    /\ result' = NoExc
    /\ sent' = <<>>
    /\ env_result' = NotCalled
    /\ changed_files' = <<>>
    /\ UNCHANGED <<config, exc, n_exec, rendered, collaborator_vars, chunking>>

\* run lines 71-74, called again after run returned: the log is reset, the
\* locals of the call before are gone, the model keeps its counters
RunAgain(task) ==
    /\ pc = "done"
    /\ run_no < MaxRuns
    /\ extra_template_vars' = Merge(extra_template_vars, run_extras(task, NoVars))
    /\ messages' = add_message(
                     add_message(<<>>, "system", render_template("system_template", <<>>)),
                     "user", render_template("instance_template", task))
    /\ pc' = "query"
    /\ trace' = <<>>
    /\ run_no' = run_no + 1
    /\ prev_kind' = result.kind
    /\ response' = <<>>
    /\ action' = <<>>
    /\ result' = NoExc
    /\ sent' = <<>>
    /\ env_result' = NotCalled
    /\ changed_files' = <<>>
    /\ UNCHANGED <<config, n_calls, cost, exc, n_exec, rendered, collaborator_vars, chunking>>

NextRuns ==
    \/ Next
    \/ \E task \in LaterTasks : RunAgain(task)

SpecRuns == Init /\ [][NextRuns]_vars

\* ------------------------------------------------------------------------
\* chunk_text of retrieval/hybrid.py
\* A text is a sequence of characters; positions count from 0 as in Python.
\* ------------------------------------------------------------------------

\* the longest text
MaxTextLen == 3

\* the largest chunk_size
MaxChunkSize == 3

\* the largest overlap
MaxOverlap == 3

\* the passes of the loop the model follows
MaxPasses == MaxTextLen + 2

Texts == UNION {[1..n -> {"a", "b"}] : n \in 0..MaxTextLen}

\* a slice bound as Python reads it: a negative one counts from the end
SliceBound(i, n) == IF i < 0 THEN Max(i + n, 0) ELSE Min(i, n)

\* text[start:end]
PySlice(text, start, end) ==
    SubSeq(text, SliceBound(start, Len(text)) + 1, SliceBound(end, Len(text)))

InitChunk ==
    /\ chunking \in {ChunkCall(text, chunk_size, overlap) :
                        text \in Texts, chunk_size \in 1..MaxChunkSize,
                        overlap \in 0..MaxOverlap}
    /\ config \in {c \in Configs : /\ c.step_limit = 0 /\ c.cost_limit = 0
                                    /\ c.max_history_messages = 0
                                    /\ ~c.validate_source_changes}
    /\ collaborator_vars = [env |-> NoVars, model |-> NoVars]
    /\ messages = <<>>
    /\ n_calls = 0
    /\ cost = 0
    /\ pc = "idle"
    /\ response = <<>>
    /\ action = <<>>
    /\ exc = NoExc
    /\ result = NoExc
    /\ sent = <<>>
    /\ n_exec = 0
    /\ env_result = NotCalled
    /\ changed_files = <<>>
    /\ trace = <<>>
    /\ run_no = 0
    /\ prev_kind = "none"
    /\ extra_template_vars = NoVars
    /\ rendered = NotRendered

\* chunk_text lines 18-24: one pass of the loop
ChunkPass ==
    /\ chunking.pc = "loop"
    /\ chunking.start < Len(chunking.text)
    /\ Len(chunking.chunks) < MaxPasses
    /\ LET text == chunking.text
           start == chunking.start
           end == Min(start + chunking.chunk_size, Len(text))
           chunk_text_slice == PySlice(text, start, end)
           next == start + (chunking.chunk_size - chunking.overlap)
       IN  chunking' = [chunking EXCEPT
                           !.chunks = Append(@, <<chunk_text_slice, start, end>>),
                           !.start = next,
                           !.pc = IF next >= Len(text) THEN "returned" ELSE "loop"]
    /\ UNCHANGED <<config, messages, n_calls, cost, pc, response, action, exc, result,
                   sent, n_exec, env_result, changed_files, trace, run_no, prev_kind,
                   extra_template_vars, rendered, collaborator_vars>>

\* chunk_text lines 18, 25: the loop condition fails, chunks is returned
ChunkReturn ==
    /\ chunking.pc = "loop"
    /\ ~(chunking.start < Len(chunking.text))
    /\ chunking' = [chunking EXCEPT !.pc = "returned"]
    /\ UNCHANGED <<config, messages, n_calls, cost, pc, response, action, exc, result,
                   sent, n_exec, env_result, changed_files, trace, run_no, prev_kind,
                   extra_template_vars, rendered, collaborator_vars>>

NextChunk ==
    \/ ChunkPass
    \/ ChunkReturn

SpecChunk == InitChunk /\ [][NextChunk]_vars

\* ------------------------------------------------------------------------
\* Rendering with the variables of the configuration, the collaborators,
\* the run and the call
\* ------------------------------------------------------------------------

\* the sets of variables a source tagged tag may define among names
VarSets(tag, names) ==
    {[n \in Names |-> IF n \in d THEN <<tag>> ELSE Undefined] : d \in SUBSET names}

\* what self.env.get_template_vars() may return
EnvVars == VarSets("env", Names)

\* what self.model.get_template_vars() may return
ModelVars == VarSets("model", Names \ {"task"})

\* the **kwargs a caller may pass to run; task is its positional parameter
RunKwargs == VarSets("extra", Names \ {"task"})

\* the **kwargs a caller may pass to render_template
CallKwargs == VarSets("kwargs", Names)

\* the names the templates reference
SystemTemplate == <<>>

InstanceTemplate == <<"task">>

Templates == {<<>>, <<"task">>, <<"step_limit">>, <<"cwd">>, <<"step_limit", "cwd">>}

RenderConfigs ==
    {c \in Configs : /\ c.cost_limit = 0 /\ c.max_history_messages = 0
                     /\ ~c.validate_source_changes}

InitRender ==
    /\ config \in RenderConfigs
    /\ collaborator_vars \in [env : EnvVars, model : ModelVars]
    /\ chunking = NotChunking
    /\ messages = <<>>
    /\ n_calls = 0
    /\ cost = 0
    /\ pc = "idle"
    /\ response = <<>>
    /\ action = <<>>
    /\ exc = NoExc
    /\ result = NoExc
    /\ sent = <<>>
    /\ n_exec = 0
    /\ env_result = NotCalled
    /\ changed_files = <<>>
    /\ trace = <<>>
    /\ run_no = 0
    /\ prev_kind = "none"
    /\ extra_template_vars = NoVars
    /\ rendered = NotRendered

\* run lines 71-74 with the variables the collaborators supply: an error of
\* a render is outside the try statement and leaves run
RunRender(task, kwargs) ==
    /\ pc = "idle"
    /\ extra_template_vars' = Merge(extra_template_vars, run_extras(task, kwargs))
    /\ trace' = <<>>
    /\ run_no' = run_no + 1
    /\ LET sys == RenderCall(SystemTemplate, NoVars, config, collaborator_vars.env,
                             collaborator_vars.model, extra_template_vars')
           inst == RenderCall(InstanceTemplate, NoVars, config, collaborator_vars.env,
                              collaborator_vars.model, extra_template_vars')
           system == add_message(<<>>, "system",
                                 render_template("system_template", sys.out.text))
       IN  IF ~sys.out.ok
           THEN /\ rendered' = sys
                /\ messages' = <<>>
                /\ exc' = Exc(sys.out.error, <<>>)
                /\ pc' = "crashed"
           ELSE IF ~inst.out.ok
           THEN /\ rendered' = inst
                /\ messages' = system
                /\ exc' = Exc(inst.out.error, <<>>)
                /\ pc' = "crashed"
           ELSE /\ rendered' = inst
                /\ messages' = add_message(system, "user",
                                   render_template("instance_template", inst.out.text))
                /\ exc' = exc
                /\ pc' = "query"
    /\ UNCHANGED <<config, n_calls, cost, response, action, result,
                   sent, n_exec, env_result, changed_files, prev_kind,
                   collaborator_vars, chunking>>

\* render_template lines 60-64
Render(template, kwargs) ==
    /\ rendered' = RenderCall(template, kwargs, config, collaborator_vars.env,
                              collaborator_vars.model, extra_template_vars)
    /\ UNCHANGED <<config, messages, n_calls, cost, pc, response, action, exc, result,
                   sent, n_exec, env_result, changed_files, trace, run_no, prev_kind,
                   extra_template_vars, collaborator_vars, chunking>>

NextRender ==
    \/ \E task \in Tasks, kwargs \in RunKwargs : RunRender(task, kwargs)
    \/ \E template \in Templates, kwargs \in CallKwargs : Render(template, kwargs)

SpecRender == InitRender /\ [][NextRender]_vars

\* ------------------------------------------------------------------------
\* One turn against a sandbox that prints submissions of diffs
\* ------------------------------------------------------------------------

\* the longest path built from PathChars
MaxPathLen == 3

PathChars == {"a", "b", "/", "x", ".py"}

ReadmePath == <<"README", ".md">>

ModPath == <<"src", "/", "pkg", "/", "mod", ".py">>

Paths ==
    UNION {[1..n -> PathChars] : n \in 1..MaxPathLen} \cup {ReadmePath, ModPath}

\* diff --git a/P b/P
HeaderLine(P) == <<"diff", "SP", "--git", "SP", "a", "/">> \o P \o <<"SP", "b", "/">> \o P

\* --- a/P
OldLine(P) == <<"---", "SP", "a", "/">> \o P

\* +++ b/P
NewLine(P) == <<"+++", "SP", "b", "/">> \o P

\* --- /dev/null
OldNull == <<"---", "SP", "/", "dev", "/", "null">>

\* +++ /dev/null
NewNull == <<"+++", "SP", "/", "dev", "/", "null">>

\* the lines that name the path P
PathLines(P) == {HeaderLine(P), OldLine(P), NewLine(P)}

\* payloads whose only path-bearing lines name the null device
NullPayloads ==
    { OldNull \o <<"NL">>,
      NewNull \o <<"NL">>,
      OldNull \o <<"NL">> \o NewNull \o <<"NL">>,
      <<"x", "NL">> \o OldNull \o <<"NL">> }

Payloads ==
    {<<>>, <<"hello", "SP", "world", "NL">>}
        \cup {l \o <<"NL">> : l \in UNION {PathLines(P) : P \in Paths}}
        \cup {OldNull \o <<"NL">> \o NewLine(P) \o <<"NL">> : P \in Paths}
        \cup NullPayloads

\* a header line of a rename: diff --git a/X b/Y
HeaderRename(X, Y) ==
    <<"diff", "SP", "--git", "SP", "a", "/">> \o X \o <<"SP", "b", "/">> \o Y

\* the old and the new path of the renames
RenamePairs ==
    { <<ReadmePath, ModPath>>, <<ModPath, ReadmePath>>,
      <<ReadmePath, <<"x", "/", "x">> >>, <<ReadmePath, <<"x", ".py">> >> }

\* payloads whose only path-bearing line is the header of a rename
RenamePayloads == {HeaderRename(r[1], r[2]) \o <<"NL">> : r \in RenamePairs}

\* payloads put after first lines that are not a plain sentinel
FewPayloads ==
    {<<>>, <<"hello", "SP", "world", "NL">>, HeaderLine(ModPath) \o <<"NL">>,
     <<"x", "NL", "S1", "NL">>}

\* a sentinel line followed by a payload
SubmissionOf(payload) == <<"S1", "NL">> \o payload

FirstLines ==
    {lead \o core \o trail :
        lead \in {<<>>, <<"NL", "SP">>},
        core \in {<<"S1">>, <<"S2">>, <<"S1", "x">>, <<"x">>, <<"x", "SP", "S1">>},
        trail \in {<<>>, <<"SP">>}}

SubmitOutputs ==
    {SubmissionOf(p) : p \in Payloads \cup RenamePayloads}
        \cup {f \o <<"NL">> \o p : f \in FirstLines, p \in FewPayloads}
        \cup {<<>>, <<"SP", "NL">>, <<"S2">>, <<"SP", "S1", "SP">>}

PatternLists ==
    { <<>>,
      DefaultPatterns,
      << <<"*">> >>,
      << <<"a", "*">> >>,
      << <<"x", "*">>, <<"b", "/", "*">> >> }

SubmitConfigs ==
    [step_limit : {1}, cost_limit : {0},
     max_history_messages : {0},
     validate_source_changes : BOOLEAN,
     source_path_patterns : PatternLists]

InitSubmit ==
    /\ config \in SubmitConfigs
    /\ messages = <<>>
    /\ n_calls = 0
    /\ cost = 0
    /\ pc = "idle"
    /\ response = <<>>
    /\ action = <<>>
    /\ exc = NoExc
    /\ result = NoExc
    /\ sent = <<>>
    /\ n_exec = 0
    /\ env_result = NotCalled
    /\ changed_files = <<>>
    /\ trace = <<>>
    /\ run_no = 0
    /\ prev_kind = "none"
    /\ extra_template_vars = NoVars
    /\ rendered = NotRendered
    /\ collaborator_vars = [env |-> NoVars, model |-> NoVars]
    /\ chunking = NotChunking

NextSubmit ==
    \/ \E task \in Tasks : Run(task)
    \/ QueryLimits
    \/ QueryModel(OneAction, 1)
    \/ ParseAction
    \/ \E output \in SubmitOutputs : ExecuteOutput(output)
    \/ HandleNonTerminating
    \/ HandleTerminating

SpecSubmit == InitSubmit /\ [][NextSubmit]_vars

\* ------------------------------------------------------------------------
\* Properties of the control loop
\* ------------------------------------------------------------------------

\* the user message the handlers of run append for the pending exception
Feedback == [role |-> "user", content |-> exc.msg]

\* a configured nonzero limit is met in the current state
LimitMet ==
    \/ (config.step_limit > 0 /\ n_calls >= config.step_limit)
    \/ (config.cost_limit > 0 /\ cost >= config.cost_limit)

C1_Step ==
    /\ (pc = "query" /\ pc' # "query") =>
          /\ (/\ exc'.kind = "LimitsExceeded"
              /\ n_calls' = n_calls /\ cost' = cost
              /\ sent' = sent /\ messages' = messages) <=> LimitMet
          /\ ~LimitMet => n_calls' = n_calls + 1
    /\ n_calls' # n_calls => ~LimitMet
    /\ (config.step_limit = 0 /\ config.cost_limit = 0) => exc'.kind # "LimitsExceeded"

\* C1: every query attempt raises LimitsExceeded, without calling the model
\* and without appending to the log, exactly when a configured nonzero limit
\* is met; otherwise it calls the model.  The model is never called with a
\* limit met, and with both limits 0 LimitsExceeded is never raised.
C1_PreemptiveLimits == [][C1_Step]_vars

\* the 3rd attempt under step_limit = 3 called the model, the 4th raised
C1_Witness ==
    /\ pc = "raised" /\ exc.kind = "LimitsExceeded"
    /\ config.step_limit = 3 /\ config.cost_limit = 0 /\ n_calls = 3

C2_Step ==
    /\ (pc = "observe" /\ pc' # "observe") =>
          LET matches == FindAll(response)
          IN  IF Len(matches) = 1
              THEN pc' = "execute" /\ action' = Strip(matches[1]) /\ exc' = NoExc
              ELSE /\ pc' = "raised" /\ exc'.kind = "FormatError"
                   /\ n_exec' = n_exec /\ result' = NoExc
    /\ (pc = "raised" /\ exc.kind = "FormatError") =>
          pc' = "query" /\ n_exec' = n_exec /\ result' = NoExc

\* C2: parse_action returns an action exactly when the pattern has one match
\* in the response, the action being that match stripped; with no match or
\* several it raises FormatError, the sandbox is not called in that turn and
\* the run goes on.
C2_SingleAction == [][C2_Step]_vars

\* the padded single block was extracted and stripped
C2_Witness == pc = "execute" /\ response = OneAction /\ action = <<"y">>

C3_Step ==
    /\ (pc = "raised" /\ exc.kind \in Terminating) =>
          /\ messages' = Append(messages, Feedback)
          /\ pc' = "done"
          /\ result'.kind = exc.kind
          /\ result'.msg = messages'[Len(messages')].content
          /\ n_calls' = n_calls /\ n_exec' = n_exec
    /\ pc = "done" =>
          /\ result.kind \in Terminating
          /\ n_calls' = n_calls /\ n_exec' = n_exec
          /\ messages' = messages /\ result' = result

\* C3: a raised Submitted or LimitsExceeded makes run append one user message
\* carrying the condition's message and return (kind name, message), the
\* message being the content of the last log entry; afterwards there is no
\* model call, no sandbox call and no log append.
C3_TerminatingReturns == [][C3_Step]_vars

\* the run returned ("Submitted", "hello world\n")
C3_Witness ==
    /\ pc = "done" /\ result.kind = "Submitted"
    /\ result.msg = <<"hello", "SP", "world", "NL">>
    /\ messages[Len(messages)] = [role |-> "user", content |-> result.msg]

C4_Step ==
    /\ (pc = "raised" /\ exc.kind \in NonTerminating) =>
          /\ messages' = Append(messages, Feedback)
          /\ pc' = "query"
          /\ result' = NoExc
          /\ n_calls' = n_calls /\ n_exec' = n_exec
    /\ (pc # "raised" /\ pc' = "raised") => messages' = messages
    /\ (pc = "query" /\ pc' # "query") =>
          IF limits_exceeded(config, n_calls, cost)
          THEN exc'.kind = "LimitsExceeded"
          ELSE pc' = "observe"

\* C4: a raised FormatError or ExecutionTimeoutError makes run append one
\* user message carrying the condition's message and no observation, run does
\* not return, and the next turn starts at the limit check of query.
C4_NonTerminatingContinues == [][C4_Step]_vars

\* one run fed back a format error, a timeout and a rejected submission
C4_Witness ==
    /\ pc = "query" /\ Len(messages) = 8
    /\ messages[4].content[1] = "format_error_template"
    /\ messages[6].content[1] = "timeout_template"
    /\ messages[8] = [role |-> "user", content |-> RejectionMessage(DefaultPatterns)]

C9_Step ==
    /\ (pc = "execute" /\ env_result'.kind = "timeout") =>
          /\ pc' = "raised"
          /\ exc'.kind = "ExecutionTimeoutError"
          /\ exc'.kind \in NonTerminating
          /\ exc'.msg = <<"timeout_template">> \o action \o <<"|">>
                          \o (IF env_result'.has
                              THEN Decode(env_result'.output) ELSE <<>>)
          /\ messages' = messages
          /\ changed_files' = changed_files
          /\ result' = NoExc
    /\ (pc = "raised" /\ exc.kind = "ExecutionTimeoutError") =>
          /\ messages' = Append(messages, Feedback)
          /\ pc' = "query"
          /\ result' = NoExc

\* C9: a sandbox timeout raises ExecutionTimeoutError whose message is the
\* timeout template rendered with the action and the attached partial output
\* ("" when none); completion detection is not run, no observation is
\* appended, and the run goes on.
C9_TimeoutRecoverable == [][C9_Step]_vars

\* a run that fed back a timeout went on and was submitted
C9_Witness ==
    /\ pc = "done" /\ result.kind = "Submitted"
    /\ \E i \in 1..Len(messages) :
          /\ messages[i].content # <<>>
          /\ messages[i].content[1] = "timeout_template"

C10_Step ==
    n_calls' = n_calls + 1 =>
        LET L == messages
            N == config.max_history_messages
            k == IF N = 0 \/ Len(L) < 3 THEN Len(L) ELSE 2 + Min(N, Len(L) - 2)
        IN  /\ Len(sent') = k
            /\ k = Min(Len(L), IF N = 0 THEN Len(L) ELSE 2 + N)
            /\ \A i \in 1..Min(2, k) : sent'[i] = L[i]
            /\ \A j \in 3..k : sent'[j] = L[Len(L) - k + j]
            /\ sent'[1].role = "system" /\ sent'[2].role = "user"
            /\ SubSeq(messages', 1, Len(L)) = L

\* C10: the view sent to the model is the log itself when N = 0 or the log
\* has fewer than 3 entries, and otherwise its first 2 entries followed by
\* its last min(N, len - 2) entries in order; building it leaves the log as
\* it was.
C10_HistoryTruncation == [][C10_Step]_vars

\* N = 2 on a log of 6 entries sent entries 1, 2, 5, 6
C10_Witness ==
    /\ pc = "observe" /\ config.max_history_messages = 2
    /\ Len(messages) = 7 /\ Len(sent) = 4
    /\ sent[3] = messages[5] /\ sent[4] = messages[6]

\* ------------------------------------------------------------------------
\* Properties of completion detection
\* ------------------------------------------------------------------------

\* o is blanks, then a sentinel at i, then spaces up to the line end at j
SentinelLine(o, i, j) ==
    /\ i < j
    /\ \A m \in 1..(i - 1) : IsSpace(o[m])
    /\ o[i] \in {"S1", "S2"}
    /\ \A m \in (i + 1)..(j - 1) : o[m] = "SP"
    /\ j <= Len(o) => o[j] = "NL"

\* the ways to read o as a sentinel first line and what follows it
SentinelReadings(o) ==
    {r \in (1..Len(o)) \X (1..(Len(o) + 1)) : SentinelLine(o, r[1], r[2])}

\* the sandbox returned in this step
Returns == pc = "execute" /\ env_result'.kind = "returned"

C5_Step ==
    (Returns /\ ~config.validate_source_changes) =>
        LET o == env_result'.output
            readings == SentinelReadings(o)
        IN  /\ exc'.kind = "Submitted" <=> readings # {}
            /\ \A r \in readings :
                  /\ exc'.msg = SubSeq(o, r[2] + 1, Len(o))
                  /\ pc' = "raised"
                  /\ messages' = messages
            /\ readings = {} =>
                  /\ exc' = NoExc
                  /\ pc' = "query"
                  /\ messages' = Append(messages,
                        [role |-> "user",
                         content |-> <<"action_observation_template">> \o o])

\* C5: with validation disabled Submitted is raised exactly when the first
\* line of the left-stripped output, stripped, is a sentinel, its message
\* being all that follows that line; otherwise nothing is raised and the
\* rendered observation is appended as a user message.
C5_CompletionDetection == [][C5_Step]_vars

\* "MINI_SWE_AGENT_FINAL_OUTPUT\nhello world\n" raised Submitted("hello world\n")
C5_Witness ==
    /\ pc = "raised" /\ ~config.validate_source_changes
    /\ env_result = Returned(HelloSubmission)
    /\ exc = Exc("Submitted", <<"hello", "SP", "world", "NL">>)

\* a collected path matches a configured pattern or ends with .py
SourceFileAmong(files, patterns) ==
    \E f \in 1..Len(files) :
        \/ \E p \in 1..Len(patterns) : FnMatch(files[f], patterns[p])
        \/ EndsWith(files[f], <<".py">>)

C6_Step ==
    (Returns /\ config.validate_source_changes
        /\ SentinelReadings(env_result'.output) # {}) =>
        IF SourceFileAmong(changed_files', config.source_path_patterns)
        THEN exc'.kind = "Submitted"
        ELSE exc'.kind = "FormatError"

\* C6: with validation enabled and a sentinel first line, for every list of
\* patterns (the empty list too) Submitted is raised if a collected path
\* matches a pattern or ends with .py, and FormatError otherwise.
C6_ValidationDecision == [][C6_Step]_vars

C7_Step ==
    (Returns /\ config.validate_source_changes) =>
        \A P \in Paths :
            env_result'.output \in {SubmissionOf(l \o <<"NL">>) : l \in PathLines(P)} =>
                /\ changed_files' # <<>>
                /\ \A i \in 1..Len(changed_files') : changed_files'[i] = P

\* C7: the candidate path collected from "diff --git a/P b/P", "--- a/P" or
\* "+++ b/P" is exactly P: only the two-character prefix is removed.
C7_PrefixStripping == [][C7_Step]_vars

C8_Step ==
    (Returns /\ config.validate_source_changes
        /\ env_result'.output \in {SubmissionOf(p) : p \in NullPayloads}) =>
        /\ changed_files' = <<>>
        /\ exc'.kind = "FormatError"

\* C8: a "--- /dev/null" or "+++ /dev/null" line contributes no candidate
\* path, so a payload naming only the null device is rejected with
\* FormatError under every pattern list.
C8_NullDeviceExcluded == [][C8_Step]_vars

\* ------------------------------------------------------------------------
\* Properties of the message log
\* ------------------------------------------------------------------------

\* s is a prefix of t
IsPrefix(s, t) == Len(s) <= Len(t) /\ SubSeq(t, 1, Len(s)) = s

\* the log begins with a system entry followed by a user entry
HasPrompts(msgs) ==
    Len(msgs) >= 2 /\ msgs[1].role = "system" /\ msgs[2].role = "user"

C11_Step ==
    /\ run_no' = run_no => IsPrefix(messages, messages')
    /\ pc' # "idle" => HasPrompts(messages')
    /\ (n_calls' # n_calls \/ trace' # trace) => HasPrompts(messages)

\* C11: once run has initialized the log its first entry has role system and
\* its second has role user, both already there when the model is called;
\* within a run every step leaves the log a prefix of the log after it, so
\* no entry is removed, edited or reordered by the truncated view or by the
\* error handlers.
C11_AppendOnlyLog == [][C11_Step]_vars

\* a view shorter than the log was sent and the log still has every entry
C11_Witness ==
    /\ pc = "observe" /\ config.max_history_messages = 1
    /\ Len(messages) = 5 /\ Len(sent) = 3
    /\ HasPrompts(messages)

\* ------------------------------------------------------------------------
\* Properties of errors outside the taxonomy
\* ------------------------------------------------------------------------

\* the pending exception is neither non-terminating nor terminating
Fatal == pc = "raised" /\ exc.kind \notin NonTerminating \cup Terminating

\* the collaborator call made last raised the error err
LastCallRaised(err) ==
    /\ trace # <<>>
    /\ LET last == trace[Len(trace)]
       IN  \/ last = ModelCall(Raised(err))
           \/ last.call = "env" /\ env_result = Failed(err)

C12_Step ==
    /\ (pc # "raised" /\ pc' = "raised" /\ exc'.kind \in ModelErrors \cup EnvErrors) =>
          messages' = messages /\ result' = NoExc
    /\ Fatal =>
          /\ pc' = "crashed" /\ exc' = exc /\ LastCallRaised(exc.kind)
          /\ messages' = messages /\ result' = NoExc
          /\ trace' = trace /\ n_calls' = n_calls /\ n_exec' = n_exec
    /\ pc' = "crashed" => Fatal
    /\ pc = "crashed" => FALSE

\* C12: an error of the model call or the sandbox call that is neither
\* non-terminating, terminating nor a sandbox timeout is handled by no
\* clause of run: no message is appended for it, no further model or sandbox
\* call is made, run returns nothing and the caller gets the error the
\* collaborator raised.
C12_FatalErrors == [][C12_Step]_vars

\* the sandbox failed in the second turn and the error left run
C12_Witness ==
    /\ pc = "crashed" /\ exc = Exc("OSError", <<>>)
    /\ env_result = Failed("OSError") /\ n_exec = 2
    /\ result = NoExc /\ messages[Len(messages)].role = "assistant"

\* ------------------------------------------------------------------------
\* Properties of rendering
\* ------------------------------------------------------------------------

\* the five sources of a render call, in increasing precedence
SourcesOf(r) == <<r.config, r.env, r.model, r.extra, r.kwargs>>

\* the sources of r that define n
Definers(r, n) == {k \in 1..5 : Defines(SourcesOf(r)[k], n)}

\* the value the definer of n of highest precedence gives it
Highest(r, n) ==
    LET k == CHOOSE k \in Definers(r, n) : \A j \in Definers(r, n) : j <= k
    IN  SourcesOf(r)[k][n]

\* some name is defined by more than one source of r
Redefined(r) == \E n \in Names : Cardinality(Definers(r, n)) > 1

\* the template of r references a name no source defines
Unresolved(r) == \E i \in 1..Len(r.template) : Definers(r, r.template[i]) = {}

\* C13: a render whose template finds all its names, with some name defined
\* by more than one of the five sources, succeeds and gives each name the
\* value of its definer of highest precedence in the order configuration,
\* environment, model, run-level extras, call keywords.
C13_Precedence ==
    (rendered.called /\ Redefined(rendered) /\ ~Unresolved(rendered)) =>
        rendered.out =
            Rendered(JoinWith(<<"SP">>,
                [i \in 1..Len(rendered.template) |->
                    Highest(rendered, rendered.template[i])]))

C14_Step ==
    /\ (rendered'.called /\ Unresolved(rendered')) =>
          rendered'.out = RenderError("UndefinedError")
    /\ (rendered' # rendered /\ run_no' = run_no) =>
          UNCHANGED <<config, messages, n_calls, cost, pc, response, action, exc,
                      result, sent, n_exec, env_result, changed_files, trace,
                      prev_kind, extra_template_vars, collaborator_vars, chunking>>

\* C14: a render whose template references a name none of the sources
\* defines raises the missing-variable error whatever else the sources
\* define, and a render_template call changes nothing of the agent.
C14_RenderStrictness == [][C14_Step]_vars

\* ------------------------------------------------------------------------
\* Properties of the sequence of collaborator calls
\* ------------------------------------------------------------------------

\* the actions in the response of the call t, none for a sandbox call
ActionsIn(t) == IF t.call = "model" THEN FindAll(t.text) ELSE <<>>

\* the calls tr are in the order of turns
InTurns(tr) ==
    \A i \in 1..Len(tr) :
        LET before == IF i > 1 THEN ActionsIn(tr[i - 1]) ELSE <<>>
        IN  /\ tr[i].call = "env" =>
                  /\ i > 1 /\ tr[i - 1].call = "model"
                  /\ Len(before) = 1
                  /\ tr[i].text = Strip(before[1])
            /\ (i > 1 /\ tr[i].call = "model" /\ tr[i - 1].call = "model") =>
                  Len(before) # 1

C15_Step ==
    /\ trace' # trace => InTurns(trace')
    /\ (trace' # trace /\ trace'[Len(trace')].call = "model") => pc = "query"

\* C15: in the calls of a run every sandbox call comes directly after the
\* model call of its turn, whose response holds exactly one action, and runs
\* that action stripped, so no two sandbox calls follow one another; a model
\* call whose response holds exactly one action is followed by the sandbox
\* call of its turn before the model is called again, and the model is
\* called only when no action is waiting for the sandbox.
C15_Sequential == [][C15_Step]_vars

\* a turn without a sandbox call, then two turns with one each
C15_Witness ==
    /\ Len(trace) = 5
    /\ trace[1].call = "model" /\ trace[2].call = "model"
    /\ trace[3] = EnvCall(<<"y">>) /\ trace[4].call = "model"
    /\ trace[5] = EnvCall(<<"y">>) /\ env_result.kind = "timeout"

\* ------------------------------------------------------------------------
\* Properties of the header lines of a diff
\* ------------------------------------------------------------------------

\* the path P is among the collected paths
Collected(files, P) == \E i \in 1..Len(files) : files[i] = P

\* the path P matches one of the patterns
MatchesSome(P, patterns) == \E p \in 1..Len(patterns) : FnMatch(P, patterns[p])

C16_Step ==
    (Returns /\ config.validate_source_changes) =>
        \A r \in RenamePairs :
            env_result'.output = SubmissionOf(HeaderRename(r[1], r[2]) \o <<"NL">>) =>
                /\ Collected(changed_files', r[1])
                /\ Collected(changed_files', r[2])
                /\ (/\ MatchesSome(r[2], config.source_path_patterns)
                    /\ ~MatchesSome(r[1], config.source_path_patterns)) =>
                        exc'.kind = "Submitted"

\* C16: from a header line "diff --git a/X b/Y" both X and Y are collected,
\* so with validation enabled a payload whose only path line is such a
\* header is accepted with Submitted when Y matches a configured pattern and
\* X does not.
C16_HeaderFields == [][C16_Step]_vars

\* ------------------------------------------------------------------------
\* Properties of termination
\* ------------------------------------------------------------------------

\* a step limit is configured
StepLimited == config.step_limit > 0

\* C17: under a step limit N > 0 a run makes at most N model calls and at
\* most N sandbox calls, returns only Submitted or LimitsExceeded, and does
\* return, whatever format errors, timeouts and rejected submissions occur
\* on the way; nothing but N bounds their number.
C17_BoundedRun ==
    /\ [](StepLimited =>
            /\ n_calls <= config.step_limit
            /\ n_exec <= config.step_limit
            /\ (pc = "done" => result.kind \in Terminating))
    /\ []((StepLimited /\ pc # "idle") => <>(pc = "done"))

\* three turns under step_limit = 3, each ended by a timeout, a rejection or
\* an observation, before the limit stopped the run
C17_Witness ==
    /\ pc = "done" /\ result.kind = "LimitsExceeded"
    /\ config.step_limit = 3 /\ config.cost_limit = 0
    /\ n_calls = 3 /\ n_exec = 3 /\ env_result.kind = "timeout"

\* ------------------------------------------------------------------------
\* Properties of runs that follow one another
\* ------------------------------------------------------------------------

\* the log run leaves before its first turn, for the task of the run
FreshLog ==
    << [role |-> "system", content |-> <<"system_template">>],
       [role |-> "user",
        content |-> <<"instance_template">> \o extra_template_vars["task"]] >>

C18_Step ==
    /\ run_no' # run_no =>
          /\ run_no' = run_no + 1
          /\ pc' = "query"
          /\ messages' = FreshLog'
          /\ \E task \in Tasks \cup LaterTasks : extra_template_vars'["task"] = task
    /\ (trace' # trace /\ trace = <<>>) => messages = FreshLog

\* C18: every call of run, a later one on the same agent too, leaves before
\* its first turn a log of exactly two entries, the system prompt and the
\* instance prompt rendered for the task of that call, so nothing of an
\* earlier run is in it.
C18_LogReset == [][C18_Step]_vars

\* the second run, for another task, after a run that made calls and was
\* submitted
C18_Witness ==
    /\ run_no = 2 /\ prev_kind = "Submitted" /\ pc = "query" /\ trace = <<>>
    /\ n_calls = 2 /\ n_exec = 2
    /\ messages = FreshLog /\ extra_template_vars["task"] = <<"other">>

\* the roles of the log
Roles(msgs) == [i \in 1..Len(msgs) |-> msgs[i].role]

C20_Step ==
    /\ n_calls' >= n_calls /\ cost' >= cost
    /\ (n_calls' # n_calls \/ cost' # cost) =>
          /\ pc = "query"
          /\ trace' # trace /\ trace'[Len(trace')].call = "model"
    /\ (run_no' >= 2 /\ prev_kind' = "LimitsExceeded") =>
          /\ trace' = <<>>
          /\ pc' \in {"query", "raised", "done"}
          /\ pc' = "raised" => exc'.kind = "LimitsExceeded"
          /\ pc' = "done" =>
                /\ result' = Exc("LimitsExceeded", <<>>)
                /\ Roles(messages') = <<"system", "user", "user">>

\* C20: no step of the loop but a model call changes the model's call count
\* or cost, and they never decrease, over the runs of an agent; so a run
\* after a run that returned LimitsExceeded calls neither the model nor the
\* sandbox and returns LimitsExceeded with the log system, user, user.
C20_CountersPersist == [][C20_Step]_vars

\* the second run returned LimitsExceeded at once
C20_Witness ==
    /\ run_no = 2 /\ prev_kind = "LimitsExceeded" /\ pc = "done"
    /\ result.kind = "LimitsExceeded" /\ trace = <<>>
    /\ Len(messages) = 3 /\ n_calls = 2 /\ n_exec = 2

\* ------------------------------------------------------------------------
\* Properties of the shape of the log
\* ------------------------------------------------------------------------

\* the positions of the entries of msgs with the role role
Positions(msgs, role) == {i \in 1..Len(msgs) : msgs[i].role = role}

\* the positions of the model calls in the calls tr
ModelCalls(tr) == {i \in 1..Len(tr) : tr[i].call = "model"}

\* system, user, (assistant, user)*
InTurnForm(roles) ==
    /\ Len(roles) >= 2 /\ Len(roles) % 2 = 0
    /\ roles[1] = "system" /\ roles[2] = "user"
    /\ \A i \in 3..Len(roles) :
          roles[i] = IF i % 2 = 1 THEN "assistant" ELSE "user"

\* C19: a response is appended as one assistant entry before an action is
\* extracted from it, malformed or not, so the assistant entries of the log
\* are as many as the model calls of the run; between turns, and when run
\* has returned Submitted, the log is system, user, (assistant, user)*; two
\* user entries follow one another only at the end of the log of a run that
\* returned LimitsExceeded.
C19_LogShape ==
    pc # "idle" =>
        LET roles == Roles(messages)
        IN  /\ Cardinality(Positions(messages, "assistant"))
                  = Cardinality(ModelCalls(trace))
            /\ pc = "observe" =>
                  messages[Len(messages)] = [role |-> "assistant", content |-> response]
            /\ pc = "query" => InTurnForm(roles)
            /\ (pc = "done" /\ result.kind = "Submitted") => InTurnForm(roles)
            /\ \A i \in 1..(Len(roles) - 1) :
                  /\ ~(roles[i] = "assistant" /\ roles[i + 1] = "assistant")
                  /\ (roles[i] = "user" /\ roles[i + 1] = "user") =>
                        /\ pc = "done" /\ result.kind = "LimitsExceeded"
                        /\ i + 1 = Len(roles)

\* a malformed response and a well-formed one were logged before the limit
\* ended the run
C19_Witness ==
    /\ pc = "done" /\ result.kind = "LimitsExceeded"
    /\ Roles(messages) =
          <<"system", "user", "assistant", "user", "assistant", "user", "user">>
    /\ ~parse_action(messages[3].content).ok
    /\ parse_action(messages[5].content).ok

\* ------------------------------------------------------------------------
\* Properties of chunk_text
\* ------------------------------------------------------------------------

\* the chunk c is (text[start:end], start, end) with start inside the text
\* and end = min(start + chunk_size, len(text))
ChunkOf(c, text, chunk_size) ==
    /\ 0 <= c[2] /\ c[2] < Len(text)
    /\ c[3] = Min(c[2] + chunk_size, Len(text))
    /\ c[1] = SubSeq(text, c[2] + 1, c[3])

C21_Step ==
    LET text == chunking.text
        chunks == chunking'.chunks
        k == Len(chunks)
    IN  /\ chunks # chunking.chunks =>
              /\ k <= Len(text)
              /\ ChunkOf(chunks[k], text, chunking.chunk_size)
              /\ k = 1 => chunks[k][2] = 0
              /\ k > 1 => chunks[k][2] - chunks[k - 1][2]
                              = chunking.chunk_size - chunking.overlap
        /\ (chunking.pc = "loop" /\ chunking'.pc = "returned") =>
              IF text = <<>>
              THEN chunks = <<>>
              ELSE chunks # <<>> /\ chunks[1][2] = 0 /\ chunks[k][3] = Len(text)

\* C21: for chunk_size >= 1 and overlap >= 0 chunk_text returns, its loop
\* making no more passes than the text has characters; each pass adds the
\* chunk (text[start:end], start, end) with end = min(start + chunk_size,
\* len(text)), the first at start 0 and each next one chunk_size - overlap
\* after the one before; for a non-empty text the last chunk ends at
\* len(text), and for the empty text nothing is returned.
C21_ChunksCover == [][C21_Step]_vars

====
